---- MODULE Spec2Model ----
(***************************************************************************)
(* A model of the purge engine of pond-slime (src/src/main.rs):            *)
(*   - purge_old, the command handler: fetch, classification and estimate, *)
(*     confirmation prompt, response collector, disable and follow-up;     *)
(*   - bulk_delete and slow_bulk_delete, the two metered deletion loops.   *)
(*                                                                         *)
(* Spec     models concurrent invocations of purge_old.                    *)
(* ExecSpec models runs of bulk_delete / slow_bulk_delete on bounded       *)
(*          bands (purge_old itself never calls them).                     *)
(*                                                                         *)
(* Units.  Message timestamps and the age horizons are in half days.       *)
(* The throttle window is in ticks of 30 s, the collector timeout in ticks *)
(* of 60 s (the two clocks belong to different specifications).            *)
(* METER_LIMIT (500 in the source) and the chunk size (100 in the source)  *)
(* are scaled down so that limit-many operations fit in a checked run.     *)
(***************************************************************************)
EXTENDS Integers, Sequences, FiniteSets, TLC

\* ------------------------------------------------------------------ bounds
\* longest channel history enumerated in Spec
MaxLen == 3
\* longest band handed to a deletion loop in ExecSpec
MaxBand == 6
\* main.rs:26 METER_LIMIT = 500, scaled
METER_LIMIT == 3
\* main.rs:109 messages.chunks(100), scaled
CHUNK_SIZE == 2
\* the instant Utc::now() returns, in half days
Now == 40

\* ------------------------------------------------------- program constants
\* chrono::Duration::days(7), in half days
SEVEN_DAYS == 14
\* days(13) + hours(12), in half days
BULK_HORIZON == 27
\* Duration::weeks(2), in half days
TWO_WEEKS == 28
\* METER_LIMIT * 100: the batch factor of the bulk estimate
BATCH_FACTOR == 100
\* Duration::from_secs(60) of sleep_until, in ticks of 30 s
WINDOW_TICKS == 2
\* Duration::from_secs(120) of the collector, in ticks of 60 s
TIMEOUT_TICKS == 2

\* the longest time a run is timed for: as many throttle windows as a band
\* of MaxBand messages can fill
TicksCap == (MaxBand \div METER_LIMIT) * WINDOW_TICKS

\* the concurrent invocations of purge_old
Inv == {1, 2}
\* the runs of a deletion loop
Runs == {1, 2}
\* the runs whose timing is recorded in ops_at and run_ticks
Timed == {1}
\* the ages (half days) of the messages a channel may hold: younger than 7
\* days, exactly 7 days, exactly 13.5 days, and two weeks
Ages == {13, 14, 27, 28}

VARIABLES
  \* ---- Spec: the platform and the invocations of purge_old
  channel,        \* the channel history, newest first: a sequence of Messages
  dry_run,        \* per invocation: the effective dry_run flag
  pc,             \* per invocation: the await point it is suspended at
  result,         \* per invocation: "none" | "Ok" | "Err" | "panic"
  messages,       \* per invocation: the fetched window
  slow_index,     \* per invocation: None or Some(0-based index found)
  bulk_count,     \* per invocation: slow_index.unwrap_or(0)
  content,        \* per invocation: what the prompt text reports
  sent,           \* per invocation: number of prompts sent
  buttons,        \* per invocation: "none" | "enabled" | "disabled"
  conf,           \* per invocation: "none" | "Sent" | "yes" | "no" | "Expired"
  elapsed,        \* per invocation: ticks since the collector started
  interaction,    \* per invocation: custom_id of the collected interaction, if any
  ack,            \* per invocation: content of the follow-up ("none" if none)
  logged,         \* per invocation: number of error!() lines written
  failed_at,      \* per invocation: the call that failed ("none" if none)
  delete_calls,   \* per invocation: platform delete calls issued
  deleted,        \* ids of the channel's messages deleted on the platform
  first_response, \* per invocation: first own button pressed in time
  late_response,  \* per invocation: whether a button was pressed after expiry
  \* ---- ExecSpec: the runs of bulk_delete / slow_bulk_delete
  kind,           \* "bulk" | "slow": which loop the runs execute
  debug_assertions, \* whether the build evaluates debug_assert!
  band_len,       \* messages.len() of the slice handed to the loop
  last_ts,        \* timestamp of messages[len - 1]
  xdry,           \* per run: its dry_run argument
  xpc,            \* per run: "enter" | "loop" | "sleep" | "done"
  xresult,        \* per run: "none" | "Ok" | "Err" | "panic"
  next_msg,       \* per run: number of messages the loop has passed
  count,          \* per run: the meter's counter
  since_start,    \* per run: ticks since start_time, capped at WINDOW_TICKS
  ops_at,         \* per timed run: operations consumed at each of the last ticks
  consumed,       \* per run: operations consumed so far
  sleeps_at,      \* per run: value of consumed at each throttle sleep
  xcalls,         \* per run: the delete calls issued, as sets of positions
  xdeleted,       \* per run: positions of the band deleted on the platform
  run_ticks       \* per timed run: ticks since the loop was entered, capped

pvars == <<channel, dry_run, pc, result, messages, slow_index, bulk_count,
           content, sent, buttons, conf, elapsed, interaction, ack, logged,
           failed_at, delete_calls, deleted, first_response,
           late_response>>
xvars == <<kind, debug_assertions, band_len, last_ts, xdry, xpc, xresult,
           next_msg, count, since_start, ops_at, consumed, sleeps_at, xcalls,
           xdeleted, run_ticks>>
vars == <<pvars, xvars>>

\* ----------------------------------------------------------------- helpers
Min(a, b) == IF a < b THEN a ELSE b

\* sequences over S of length at most n
SeqUpTo(S, n) == UNION {[1..k -> S] : k \in 0..n}

\* a Message as the code reads it: its id and its timestamp
Message(id, ts) == [id |-> id, timestamp |-> ts]

\* messages_iter enumerates newest first: timestamps never increase
NewestFirst(s) == \A k \in 1..(Len(s) - 1) : s[k].timestamp >= s[k + 1].timestamp

\* the channel histories of the model
Histories ==
  {h \in {[k \in 1..Len(a) |-> Message(k, Now - a[k])] : a \in SeqUpTo(Ages, MaxLen)} :
     NewestFirst(h)}

\* --------------------------------------------------------- pure functions
\* a skip_while that lets a message dated exactly `before` through
RECURSIVE SkipWhileAfter(_, _)
SkipWhileAfter(s, before) ==
  IF s = <<>> THEN <<>>
  ELSE IF Head(s).timestamp > before THEN SkipWhileAfter(Tail(s), before)
  ELSE s

\* main.rs:86-92 skip_while(timestamp >= before): the suffix starting at the
\* first message with timestamp < before
RECURSIVE SkipWhile(_, _)
SkipWhile(s, before) ==
  IF s = <<>> THEN <<>>
  ELSE IF Head(s).timestamp >= before THEN SkipWhile(Tail(s), before)
  ELSE s

\* main.rs:79-95 messages_before when the enumeration does not fail
messages_before(before, hist) == SkipWhile(hist, before)

\* Option<T>: None is the empty sequence, Some(x) the sequence of x alone
None == <<>>
Some(x) == <<x>>

\* main.rs:176-179 iter().enumerate().find(timestamp < bulk_cutoff): the
\* 0-based index of the first such message, if any
Find(msgs, bulk_cutoff) ==
  LET hits == {k \in 1..Len(msgs) : msgs[k].timestamp < bulk_cutoff}
  IN IF hits = {} THEN None
     ELSE Some((CHOOSE k \in hits : \A j \in hits : k <= j) - 1)

\* main.rs:199 slow_index.unwrap_or(0)
BulkCount(si) == IF si = None THEN 0 ELSE si[1]

\* main.rs:181 messages.len() - idx, the count reported for the slow band
\* (nothing is counted when nothing was found)
OldMessageCount(msgs, si) == IF si = None THEN 0 ELSE Len(msgs) - si[1]

\* the band the prompt reports as bulk: messages[0] .. messages[bulk_count-1]
BulkBand(msgs, si) == SubSeq(msgs, 1, BulkCount(si))

\* the band the prompt reports as slow: messages[idx] .. messages[len-1]
SlowBand(msgs, si) ==
  IF si = None THEN <<>> ELSE SubSeq(msgs, si[1] + 1, Len(msgs))

\* Estimates are kept exactly, in units of 1/(METER_LIMIT * 100) minute.
\* an estimate of the slow band taken from the length of the whole window
MinutesSlowOfWindow(msgs, si) == Len(msgs) * BATCH_FACTOR
\* main.rs:182 old_message_count / METER_LIMIT, 0. when nothing was found
MinutesSlow(msgs, si) == OldMessageCount(msgs, si) * BATCH_FACTOR
\* main.rs:200-214 bulk_count / (METER_LIMIT * 100), 0. when bulk_count = 0
MinutesBulk(si) == IF BulkCount(si) > 0 THEN BulkCount(si) ELSE 0

\* main.rs:171-216 the text of the prompt: which paragraphs it has, the
\* counts and boundary links they show, and the total
Content(msgs, si) ==
  [slow  |-> IF si = None THEN None
             ELSE Some([count |-> OldMessageCount(msgs, si),
                        first |-> msgs[Len(msgs)].id,
                        last  |-> msgs[si[1] + 1].id,
                        minutes |-> MinutesSlow(msgs, si)]),
   bulk  |-> IF BulkCount(si) > 0
             THEN Some([count |-> BulkCount(si),
                        first |-> msgs[BulkCount(si)].id,
                        last  |-> msgs[1].id,
                        minutes |-> MinutesBulk(si)])
             ELSE None,
   minutes |-> MinutesSlow(msgs, si) + MinutesBulk(si)]

\* main.rs:187, 206, 216 {minutes:.2}: the hundredths of a minute the text
\* shows for an estimate v (in units of 1/(METER_LIMIT * 100) minute), that
\* is v / METER_LIMIT rounded to the nearest integer; on a tie the digit
\* depends on the binary value of the f64, so either neighbour may be shown
Format2(v) ==
  LET q == v \div METER_LIMIT
      rem == v % METER_LIMIT
  IN IF 2 * rem < METER_LIMIT THEN {q}
     ELSE IF 2 * rem > METER_LIMIT THEN {q + 1}
     ELSE {q, q + 1}

\* ctx.id(): the platform gives each invocation its own interaction id
CtxId(i) == 10 * i + 7

\* format!("{id}"): the decimal digits of id
Digit(d) == <<"0", "1", "2", "3", "4", "5", "6", "7", "8", "9">>[d + 1]
RECURSIVE FormatId(_)
FormatId(n) == IF n < 10 THEN <<Digit(n)>> ELSE FormatId(n \div 10) \o <<Digit(n % 10)>>

\* a token that drops all but the last digit of the id
YesUuidLastDigit(i) == <<Digit(CtxId(i) % 10)>> \o <<"-", "y", "e", "s">>
\* main.rs:219 format!("{id}-yes")
yes_uuid(i) == FormatId(CtxId(i)) \o <<"-", "y", "e", "s">>
\* main.rs:220 format!("{id}-no")
no_uuid(i) == FormatId(CtxId(i)) \o <<"-", "n", "o">>
\* main.rs:231 custom_ids(vec![yes_uuid, no_uuid]): the collector's filter
CustomIds(i) == {yes_uuid(i), no_uuid(i)}
\* the custom id carried by a press of button c of invocation j's prompt
ButtonId(j, c) == IF c = "yes" THEN yes_uuid(j) ELSE no_uuid(j)

\* ------------------------------------------------ Spec: purge_old (156-260)
\* main.rs:163 dry_run.unwrap_or(false) || cfg!(debug)
DryRun(arg, cfg_debug) == (IF arg = None THEN FALSE ELSE arg[1]) \/ cfg_debug

\* the messages of the channel still on the platform, newest first
Live == SelectSeq(channel, LAMBDA m : m.id \notin deleted)

\* the deletion loops are not running
XIdle ==
  /\ kind = "slow" /\ debug_assertions = FALSE /\ band_len = 0 /\ last_ts = 0
  /\ xdry = [r \in Runs |-> FALSE]
  /\ xpc = [r \in Runs |-> "done"]
  /\ xresult = [r \in Runs |-> "none"]
  /\ next_msg = [r \in Runs |-> 0]
  /\ count = [r \in Runs |-> 0]
  /\ since_start = [r \in Runs |-> 0]
  /\ ops_at = [r \in Runs |-> [k \in 1..WINDOW_TICKS |-> 0]]
  /\ consumed = [r \in Runs |-> 0]
  /\ sleeps_at = [r \in Runs |-> <<>>]
  /\ xcalls = [r \in Runs |-> <<>>]
  /\ xdeleted = [r \in Runs |-> {}]
  /\ run_ticks = [r \in Runs |-> 0]

\* the state when the handlers are entered (main.rs:156-163)
Init ==
  /\ channel \in Histories
  /\ \E arg \in [Inv -> {None, Some(TRUE), Some(FALSE)}], cfg_debug \in BOOLEAN :
       dry_run = [i \in Inv |-> DryRun(arg[i], cfg_debug)]
  /\ pc = [i \in Inv |-> "defer"]
  /\ result = [i \in Inv |-> "none"]
  /\ messages = [i \in Inv |-> <<>>]
  /\ slow_index = [i \in Inv |-> None]
  /\ bulk_count = [i \in Inv |-> 0]
  /\ content = [i \in Inv |-> None]
  /\ sent = [i \in Inv |-> 0]
  /\ buttons = [i \in Inv |-> "none"]
  /\ conf = [i \in Inv |-> "none"]
  /\ elapsed = [i \in Inv |-> 0]
  /\ interaction = [i \in Inv |-> None]
  /\ ack = [i \in Inv |-> "none"]
  /\ logged = [i \in Inv |-> 0]
  /\ failed_at = [i \in Inv |-> "none"]
  /\ delete_calls = [i \in Inv |-> 0]
  /\ deleted = {}
  /\ first_response = [i \in Inv |-> "none"]
  /\ late_response = [i \in Inv |-> FALSE]
  /\ XIdle

\* the handler returns res; where names the call whose error `?` propagates
Return(i, res, where) ==
  /\ pc' = [pc EXCEPT ![i] = "done"]
  /\ result' = [result EXCEPT ![i] = res]
  /\ failed_at' = [failed_at EXCEPT ![i] = where]

\* main.rs:165 ctx.defer().await?
Defer(i) ==
  /\ pc[i] = "defer"
  /\ \/ /\ pc' = [pc EXCEPT ![i] = "fetch"]
        /\ UNCHANGED <<result, failed_at>>
     \/ Return(i, "Err", "defer")
  /\ UNCHANGED <<channel, dry_run, messages, slow_index, bulk_count, content,
                 sent, buttons, conf, elapsed, interaction, ack, logged,
                 delete_calls, deleted, first_response, late_response, xvars>>

\* a handler without the early return on an empty window
FetchNoEarlyReturn(i) ==
  /\ pc[i] = "fetch"
  /\ \/ LET before == Now - SEVEN_DAYS
            msgs == messages_before(before, Live)
            bulk_cutoff == Now - BULK_HORIZON
            si == Find(msgs, bulk_cutoff)
        IN /\ messages' = [messages EXCEPT ![i] = msgs]
           /\ slow_index' = [slow_index EXCEPT ![i] = si]
           /\ bulk_count' = [bulk_count EXCEPT ![i] = BulkCount(si)]
           /\ content' = [content EXCEPT ![i] = Some(Content(msgs, si))]
           /\ pc' = [pc EXCEPT ![i] = "send"]
           /\ UNCHANGED <<result, failed_at>>
     \/ /\ Return(i, "Err", "fetch")
        /\ UNCHANGED <<messages, slow_index, bulk_count, content>>
  /\ UNCHANGED <<channel, dry_run, sent, buttons, conf, elapsed, interaction,
                 ack, logged, delete_calls, deleted, first_response,
                 late_response, xvars>>

\* main.rs:167-222 messages_before(...).await?, the empty-window return, the
\* classification and the text of the prompt, up to the next await
Fetch(i) ==
  /\ pc[i] = "fetch"
  /\ \/ LET before == Now - SEVEN_DAYS
            msgs == messages_before(before, Live)
            bulk_cutoff == Now - BULK_HORIZON
            si == Find(msgs, bulk_cutoff)
        IN /\ messages' = [messages EXCEPT ![i] = msgs]
           /\ IF msgs = <<>>
              THEN /\ Return(i, "Ok", failed_at[i])
                   /\ UNCHANGED <<slow_index, bulk_count, content>>
              ELSE /\ slow_index' = [slow_index EXCEPT ![i] = si]
                   /\ bulk_count' = [bulk_count EXCEPT ![i] = BulkCount(si)]
                   /\ content' = [content EXCEPT ![i] = Some(Content(msgs, si))]
                   /\ pc' = [pc EXCEPT ![i] = "send"]
                   /\ UNCHANGED <<result, failed_at>>
     \/ /\ Return(i, "Err", "fetch")
        /\ UNCHANGED <<messages, slow_index, bulk_count, content>>
  /\ UNCHANGED <<channel, dry_run, sent, buttons, conf, elapsed, interaction,
                 ack, logged, delete_calls, deleted, first_response,
                 late_response, xvars>>

\* main.rs:224-232 ctx.send(reply).await?, then the collector starts
Send(i) ==
  /\ pc[i] = "send"
  /\ \/ /\ sent' = [sent EXCEPT ![i] = @ + 1]
        /\ buttons' = [buttons EXCEPT ![i] = "enabled"]
        /\ conf' = [conf EXCEPT ![i] = "Sent"]
        /\ elapsed' = [elapsed EXCEPT ![i] = 0]
        /\ pc' = [pc EXCEPT ![i] = "collect"]
        /\ UNCHANGED <<result, failed_at>>
     \/ /\ Return(i, "Err", "send")
        /\ UNCHANGED <<sent, buttons, conf, elapsed>>
  /\ UNCHANGED <<channel, dry_run, messages, slow_index, bulk_count, content,
                 interaction, ack, logged, delete_calls, deleted,
                 first_response, late_response, xvars>>

\* main.rs:229-233 the collector of invocation i yields the interaction tok:
\* it is still waiting, before its timeout, and tok passes its filter
Collects(i, tok) ==
  /\ pc[i] = "collect"
  /\ elapsed[i] < TIMEOUT_TICKS
  /\ tok \in CustomIds(i)

\* main.rs:244-248 the choice the handler reads off the custom id
Choice(i, tok) == IF tok = yes_uuid(i) THEN "yes" ELSE "no"

\* what a press of button c of invocation j's prompt adds to the history
\* variables first_response and late_response
Pressed(j, c) ==
  /\ first_response' =
       [first_response EXCEPT ![j] =
          IF @ = "none" /\ conf[j] = "Sent" /\ elapsed[j] < TIMEOUT_TICKS
          THEN c ELSE @]
  /\ late_response' = [late_response EXCEPT ![j] = @ \/ conf[j] = "Expired"]

\* a collector that goes on listening after it has finished
ClickAgain(j, c) ==
  LET tok == ButtonId(j, c)
      hit(i) == conf[i] # "none" /\ tok \in CustomIds(i)
  IN /\ buttons[j] = "enabled"
     /\ pc' = [i \in Inv |-> IF hit(i) THEN "respond" ELSE pc[i]]
     /\ conf' = [i \in Inv |-> IF hit(i) THEN Choice(i, tok) ELSE conf[i]]
     /\ interaction' = [i \in Inv |-> IF hit(i) THEN Some(tok) ELSE interaction[i]]
     /\ Pressed(j, c)
     /\ UNCHANGED <<channel, dry_run, result, messages, slow_index, bulk_count,
                    content, sent, buttons, elapsed, ack, logged, failed_at,
                    delete_calls, deleted, xvars>>

\* the user presses button c of the prompt of invocation j (its buttons are
\* shown and enabled); the platform delivers the component interaction to
\* every collector, and each collector applies its own filter (229-233)
Click(j, c) ==
  LET tok == ButtonId(j, c)
  IN /\ buttons[j] = "enabled"
     /\ pc' = [i \in Inv |-> IF Collects(i, tok) THEN "respond" ELSE pc[i]]
     /\ conf' = [i \in Inv |-> IF Collects(i, tok) THEN Choice(i, tok) ELSE conf[i]]
     /\ interaction' =
          [i \in Inv |-> IF Collects(i, tok) THEN Some(tok) ELSE interaction[i]]
     /\ Pressed(j, c)
     /\ UNCHANGED <<channel, dry_run, result, messages, slow_index, bulk_count,
                    content, sent, buttons, elapsed, ack, logged, failed_at,
                    delete_calls, deleted, xvars>>

\* a timeout branch that reports an error and greys the buttons out
TimeoutAsError(i) ==
  /\ pc[i] = "collect"
  /\ elapsed[i] = TIMEOUT_TICKS
  /\ conf' = [conf EXCEPT ![i] = "Expired"]
  /\ buttons' = [buttons EXCEPT ![i] = "disabled"]
  /\ Return(i, "Err", "collect")
  /\ UNCHANGED <<channel, dry_run, messages, slow_index, bulk_count, content,
                 sent, elapsed, interaction, ack, logged, delete_calls,
                 deleted, first_response, late_response, xvars>>

\* main.rs:229-233, 257-259 the collector times out: it yields None, the
\* if-let body is skipped and the handler returns Ok(())
Timeout(i) ==
  /\ pc[i] = "collect"
  /\ elapsed[i] = TIMEOUT_TICKS
  /\ conf' = [conf EXCEPT ![i] = "Expired"]
  /\ Return(i, "Ok", failed_at[i])
  /\ UNCHANGED <<channel, dry_run, messages, slow_index, bulk_count, content,
                 sent, buttons, elapsed, interaction, ack, logged, delete_calls,
                 deleted, first_response, late_response, xvars>>

\* 60 s pass for every collector that is waiting (main.rs:230)
Tick ==
  /\ \E i \in Inv : pc[i] = "collect" /\ elapsed[i] < TIMEOUT_TICKS
  /\ elapsed' = [i \in Inv |->
                   IF pc[i] = "collect" /\ elapsed[i] < TIMEOUT_TICKS
                   THEN elapsed[i] + 1 ELSE elapsed[i]]
  /\ UNCHANGED <<channel, dry_run, pc, result, messages, slow_index, bulk_count,
                 content, sent, buttons, conf, interaction, ack, logged,
                 failed_at, delete_calls, deleted, first_response,
                 late_response, xvars>>

\* a disable step whose failure is logged and passed over
RespondPassOver(i) ==
  /\ pc[i] = "respond"
  /\ pc' = [pc EXCEPT ![i] = "followup"]
  /\ \/ /\ buttons' = [buttons EXCEPT ![i] = "disabled"]
        /\ UNCHANGED logged
     \/ /\ logged' = [logged EXCEPT ![i] = @ + 1]
        /\ UNCHANGED buttons
  /\ UNCHANGED <<channel, dry_run, result, failed_at, messages, slow_index,
                 bulk_count, content, sent, conf, elapsed, interaction, ack,
                 delete_calls, deleted, first_response, late_response, xvars>>

\* main.rs:234-242 the update that disables the buttons:
\* create_response(...).await.inspect_err(|e| error!(..))?
Respond(i) ==
  /\ pc[i] = "respond"
  /\ \/ /\ buttons' = [buttons EXCEPT ![i] = "disabled"]
        /\ pc' = [pc EXCEPT ![i] = "followup"]
        /\ UNCHANGED <<result, failed_at, logged>>
     \/ /\ logged' = [logged EXCEPT ![i] = @ + 1]
        /\ Return(i, "Err", "create_response")
        /\ UNCHANGED buttons
  /\ UNCHANGED <<channel, dry_run, messages, slow_index, bulk_count, content,
                 sent, conf, elapsed, interaction, ack, delete_calls, deleted,
                 first_response, late_response, xvars>>

\* a handler that starts deleting after the follow-up whatever was chosen
FollowupThenDelete(i) ==
  /\ pc[i] = "followup"
  /\ interaction[i] # None
  /\ ack' = [ack EXCEPT ![i] = Choice(i, interaction[i][1])]
  /\ delete_calls' = [delete_calls EXCEPT ![i] = @ + 1]
  /\ Return(i, "Ok", failed_at[i])
  /\ UNCHANGED <<channel, dry_run, messages, slow_index, bulk_count, content,
                 sent, buttons, conf, elapsed, interaction, logged, deleted,
                 first_response, late_response, xvars>>

\* main.rs:244-259 the acknowledgment text is matched from the custom id,
\* create_followup(...).await.inspect_err(|e| error!(..))?, then Ok(())
Followup(i) ==
  /\ pc[i] = "followup"
  /\ interaction[i] # None
  /\ IF interaction[i][1] \notin CustomIds(i)
     THEN /\ Return(i, "panic", "unreachable")
          /\ UNCHANGED <<ack, logged>>
     ELSE \/ /\ ack' = [ack EXCEPT ![i] = Choice(i, interaction[i][1])]
             /\ Return(i, "Ok", failed_at[i])
             /\ UNCHANGED logged
          \/ /\ logged' = [logged EXCEPT ![i] = @ + 1]
             /\ Return(i, "Err", "create_followup")
             /\ UNCHANGED ack
  /\ UNCHANGED <<channel, dry_run, messages, slow_index, bulk_count, content,
                 sent, buttons, conf, elapsed, interaction, delete_calls,
                 deleted, first_response, late_response, xvars>>

Next ==
  \/ \E i \in Inv : Defer(i)
  \/ \E i \in Inv : Fetch(i)
  \/ \E i \in Inv : Send(i)
  \/ \E j \in Inv, c \in {"yes", "no"} : Click(j, c)
  \/ \E i \in Inv : Timeout(i)
  \/ Tick
  \/ \E i \in Inv : Respond(i)
  \/ \E i \in Inv : Followup(i)

Spec == Init /\ [][Next]_vars

\* the timers of the runtime fire: time passes while a collector waits, and
\* a collector whose 120 s are over yields None
FairSpec == Spec /\ WF_vars(Tick) /\ \A i \in Inv : WF_vars(Timeout(i))

TypeOK ==
  /\ pc \in [Inv -> {"defer", "fetch", "send", "collect", "respond", "followup", "done"}]
  /\ result \in [Inv -> {"none", "Ok", "Err", "panic"}]
  /\ conf \in [Inv -> {"none", "Sent", "yes", "no", "Expired"}]
  /\ buttons \in [Inv -> {"none", "enabled", "disabled"}]
  /\ elapsed \in [Inv -> 0..TIMEOUT_TICKS]

\* ------------------- ExecSpec: bulk_delete (97-123), slow_bulk_delete (125-147)
\* no invocation of purge_old is running
PIdle ==
  /\ channel = <<>>
  /\ dry_run = [i \in Inv |-> FALSE]
  /\ pc = [i \in Inv |-> "done"]
  /\ result = [i \in Inv |-> "none"]
  /\ messages = [i \in Inv |-> <<>>]
  /\ slow_index = [i \in Inv |-> None]
  /\ bulk_count = [i \in Inv |-> 0]
  /\ content = [i \in Inv |-> None]
  /\ sent = [i \in Inv |-> 0]
  /\ buttons = [i \in Inv |-> "none"]
  /\ conf = [i \in Inv |-> "none"]
  /\ elapsed = [i \in Inv |-> 0]
  /\ interaction = [i \in Inv |-> None]
  /\ ack = [i \in Inv |-> "none"]
  /\ logged = [i \in Inv |-> 0]
  /\ failed_at = [i \in Inv |-> "none"]
  /\ delete_calls = [i \in Inv |-> 0]
  /\ deleted = {}
  /\ first_response = [i \in Inv |-> "none"]
  /\ late_response = [i \in Inv |-> FALSE]

\* the runs are handed the same slice of messages, each with its own dry_run
\* flag; of the slice the loops read only its length and, in bulk_delete's
\* assertion, the timestamp of its last element (slow_bulk_delete reads no
\* timestamp, so none is drawn for it)
ExecInit ==
  /\ PIdle
  /\ kind \in {"bulk", "slow"}
  /\ debug_assertions \in BOOLEAN
  /\ band_len \in 0..MaxBand
  /\ last_ts \in IF band_len = 0 \/ kind = "slow" THEN {0}
                 ELSE {Now - BULK_HORIZON, Now - TWO_WEEKS}
  /\ xdry \in [Runs -> BOOLEAN]
  /\ xpc = [r \in Runs |-> "enter"]
  /\ xresult = [r \in Runs |-> "none"]
  /\ next_msg = [r \in Runs |-> 0]
  /\ count = [r \in Runs |-> 0]
  /\ since_start = [r \in Runs |-> 0]
  /\ ops_at = [r \in Runs |-> [k \in 1..WINDOW_TICKS |-> 0]]
  /\ consumed = [r \in Runs |-> 0]
  /\ sleeps_at = [r \in Runs |-> <<>>]
  /\ xcalls = [r \in Runs |-> <<>>]
  /\ xdeleted = [r \in Runs |-> {}]
  /\ run_ticks = [r \in Runs |-> 0]

\* the loop function returns res
XReturn(r, res) ==
  /\ xpc' = [xpc EXCEPT ![r] = "done"]
  /\ xresult' = [xresult EXCEPT ![r] = res]

\* one more operation is consumed now (the tick is noted for a timed run)
OpNow(r) ==
  /\ consumed' = [consumed EXCEPT ![r] = @ + 1]
  /\ ops_at' = [ops_at EXCEPT ![r][1] = IF r \in Timed THEN @ + 1 ELSE @]

\* an assertion with the comparison turned round: the last message must be
\* at least two weeks old
BulkEnterOlder(r) ==
  /\ kind = "bulk"
  /\ xpc[r] = "enter"
  /\ IF debug_assertions /\ (band_len = 0 \/ ~(last_ts <= Now - TWO_WEEKS))
     THEN /\ XReturn(r, "panic")
          /\ UNCHANGED <<count, since_start>>
     ELSE /\ count' = [count EXCEPT ![r] = 0]
          /\ since_start' = [since_start EXCEPT ![r] = 0]
          /\ xpc' = [xpc EXCEPT ![r] = "loop"]
          /\ UNCHANGED xresult
  /\ UNCHANGED <<pvars, run_ticks, kind, debug_assertions, band_len, last_ts, xdry,
                 next_msg, ops_at, consumed, sleeps_at, xcalls, xdeleted>>

\* main.rs:102-108 the debug assertion on the last message (evaluated in
\* debug builds only; it indexes messages[len - 1]), then the meter starts
BulkEnter(r) ==
  /\ kind = "bulk"
  /\ xpc[r] = "enter"
  /\ IF debug_assertions /\ (band_len = 0 \/ ~(last_ts > Now - TWO_WEEKS))
     THEN /\ XReturn(r, "panic")
          /\ UNCHANGED <<count, since_start>>
     ELSE /\ count' = [count EXCEPT ![r] = 0]
          /\ since_start' = [since_start EXCEPT ![r] = 0]
          /\ xpc' = [xpc EXCEPT ![r] = "loop"]
          /\ UNCHANGED xresult
  /\ UNCHANGED <<pvars, run_ticks, kind, debug_assertions, band_len, last_ts, xdry,
                 next_msg, ops_at, consumed, sleeps_at, xcalls, xdeleted>>

\* a loop body that meters only the calls it really makes
BulkChunkUnmeteredDry(r) ==
  LET chunk == (next_msg[r] + 1)..Min(next_msg[r] + CHUNK_SIZE, band_len)
  IN /\ kind = "bulk"
     /\ xpc[r] = "loop"
     /\ next_msg[r] < band_len
     /\ next_msg' = [next_msg EXCEPT ![r] = Min(@ + CHUNK_SIZE, band_len)]
     /\ IF xdry[r]
        THEN UNCHANGED <<xcalls, xdeleted, count, consumed, ops_at, sleeps_at,
                         xpc, xresult>>
        ELSE /\ xcalls' = [xcalls EXCEPT ![r] = Append(@, chunk)]
             /\ xdeleted' = [xdeleted EXCEPT ![r] = @ \cup chunk]
             /\ OpNow(r)
             /\ IF count[r] + 1 >= METER_LIMIT
                THEN /\ xpc' = [xpc EXCEPT ![r] = "sleep"]
                     /\ sleeps_at' = [sleeps_at EXCEPT ![r] = Append(@, consumed[r] + 1)]
                ELSE UNCHANGED <<xpc, sleeps_at>>
             /\ count' = [count EXCEPT ![r] = @ + 1]
             /\ UNCHANGED xresult
     /\ UNCHANGED <<pvars, run_ticks, kind, debug_assertions, band_len, last_ts, xdry,
                    since_start>>

\* a loop over chunks_exact(100): full batches only, the remainder of the
\* band is passed over
BulkChunkExact(r) ==
  LET chunk == (next_msg[r] + 1)..(next_msg[r] + CHUNK_SIZE)
  IN /\ kind = "bulk"
     /\ xpc[r] = "loop"
     /\ next_msg[r] < band_len
     /\ IF next_msg[r] + CHUNK_SIZE > band_len
        THEN /\ next_msg' = [next_msg EXCEPT ![r] = band_len]
             /\ UNCHANGED <<xcalls, xdeleted, count, consumed, ops_at, xpc,
                            sleeps_at, xresult>>
        ELSE \/ /\ xcalls' = [xcalls EXCEPT ![r] = IF xdry[r] THEN @ ELSE Append(@, chunk)]
                /\ xdeleted' = [xdeleted EXCEPT ![r] = IF xdry[r] THEN @ ELSE @ \cup chunk]
                /\ next_msg' = [next_msg EXCEPT ![r] = @ + CHUNK_SIZE]
                /\ count' = [count EXCEPT ![r] = @ + 1]
                /\ OpNow(r)
                /\ IF count[r] + 1 >= METER_LIMIT
                   THEN /\ xpc' = [xpc EXCEPT ![r] = "sleep"]
                        /\ sleeps_at' = [sleeps_at EXCEPT ![r] = Append(@, consumed[r] + 1)]
                   ELSE UNCHANGED <<xpc, sleeps_at>>
                /\ UNCHANGED xresult
             \/ /\ ~xdry[r]
                /\ xcalls' = [xcalls EXCEPT ![r] = Append(@, chunk)]
                /\ XReturn(r, "Err")
                /\ UNCHANGED <<xdeleted, next_msg, count, consumed, ops_at, sleeps_at>>
     /\ UNCHANGED <<pvars, run_ticks, kind, debug_assertions, band_len, last_ts, xdry,
                    since_start>>

\* main.rs:109-116 one iteration of the loop over messages.chunks(100): the
\* batch delete unless dry_run (its error returns), count += 1, and the
\* sleep_until when count >= METER_LIMIT
BulkChunk(r) ==
  LET chunk == (next_msg[r] + 1)..Min(next_msg[r] + CHUNK_SIZE, band_len)
  IN /\ kind = "bulk"
     /\ xpc[r] = "loop"
     /\ next_msg[r] < band_len
     /\ \/ /\ xcalls' = [xcalls EXCEPT ![r] = IF xdry[r] THEN @ ELSE Append(@, chunk)]
           /\ xdeleted' = [xdeleted EXCEPT ![r] = IF xdry[r] THEN @ ELSE @ \cup chunk]
           /\ next_msg' = [next_msg EXCEPT ![r] = Min(@ + CHUNK_SIZE, band_len)]
           /\ count' = [count EXCEPT ![r] = @ + 1]
           /\ OpNow(r)
           /\ IF count[r] + 1 >= METER_LIMIT
              THEN /\ xpc' = [xpc EXCEPT ![r] = "sleep"]
                   /\ sleeps_at' = [sleeps_at EXCEPT ![r] = Append(@, consumed[r] + 1)]
              ELSE UNCHANGED <<xpc, sleeps_at>>
           /\ UNCHANGED xresult
        \/ /\ ~xdry[r]
           /\ xcalls' = [xcalls EXCEPT ![r] = Append(@, chunk)]
           /\ XReturn(r, "Err")
           /\ UNCHANGED <<xdeleted, next_msg, count, consumed, ops_at, sleeps_at>>
     /\ UNCHANGED <<pvars, run_ticks, kind, debug_assertions, band_len, last_ts, xdry,
                    since_start>>

\* main.rs:116-118 sleep_until(start_time + 60 s) is over: count = 0 and
\* start_time = Instant::now()
BulkWake(r) ==
  /\ kind = "bulk"
  /\ xpc[r] = "sleep"
  /\ since_start[r] >= WINDOW_TICKS
  /\ count' = [count EXCEPT ![r] = 0]
  /\ since_start' = [since_start EXCEPT ![r] = 0]
  /\ xpc' = [xpc EXCEPT ![r] = "loop"]
  /\ UNCHANGED <<pvars, run_ticks, kind, debug_assertions, band_len, last_ts, xdry,
                 xresult, next_msg, ops_at, consumed, sleeps_at, xcalls,
                 xdeleted>>

\* main.rs:120-122 the chunks are exhausted: Ok(())
BulkReturn(r) ==
  /\ kind = "bulk"
  /\ xpc[r] = "loop"
  /\ next_msg[r] = band_len
  /\ XReturn(r, "Ok")
  /\ UNCHANGED <<pvars, run_ticks, kind, debug_assertions, band_len, last_ts, xdry,
                 next_msg, count, since_start, ops_at, consumed, sleeps_at,
                 xcalls, xdeleted>>

\* main.rs:130-131 the meter starts
SlowEnter(r) ==
  /\ kind = "slow"
  /\ xpc[r] = "enter"
  /\ count' = [count EXCEPT ![r] = 0]
  /\ since_start' = [since_start EXCEPT ![r] = 0]
  /\ xpc' = [xpc EXCEPT ![r] = "loop"]
  /\ UNCHANGED <<pvars, run_ticks, kind, debug_assertions, band_len, last_ts, xdry,
                 xresult, next_msg, ops_at, consumed, sleeps_at, xcalls,
                 xdeleted>>

\* a loop body that notes a failed delete and goes on with the next message
SlowMessageGoOn(r) ==
  LET one == {next_msg[r] + 1}
  IN /\ kind = "slow"
     /\ xpc[r] = "loop"
     /\ next_msg[r] < band_len
     /\ xcalls' = [xcalls EXCEPT ![r] = IF xdry[r] THEN @ ELSE Append(@, one)]
     /\ \/ /\ xdeleted' = [xdeleted EXCEPT ![r] = IF xdry[r] THEN @ ELSE @ \cup one]
           /\ UNCHANGED xresult
        \/ /\ ~xdry[r]
           /\ xresult' = [xresult EXCEPT ![r] = "Err"]
           /\ UNCHANGED xdeleted
     /\ next_msg' = [next_msg EXCEPT ![r] = @ + 1]
     /\ count' = [count EXCEPT ![r] = @ + 1]
     /\ OpNow(r)
     /\ IF count[r] + 1 >= METER_LIMIT
        THEN /\ xpc' = [xpc EXCEPT ![r] = "sleep"]
             /\ sleeps_at' = [sleeps_at EXCEPT ![r] = Append(@, consumed[r] + 1)]
        ELSE UNCHANGED <<xpc, sleeps_at>>
     /\ UNCHANGED <<pvars, run_ticks, kind, debug_assertions, band_len, last_ts, xdry,
                    since_start>>

\* main.rs:133-140 one iteration of the loop over messages: the delete
\* unless dry_run (its error returns), count += 1, and the sleep_until when
\* count >= METER_LIMIT
SlowMessage(r) ==
  LET one == {next_msg[r] + 1}
  IN /\ kind = "slow"
     /\ xpc[r] = "loop"
     /\ next_msg[r] < band_len
     /\ \/ /\ xcalls' = [xcalls EXCEPT ![r] = IF xdry[r] THEN @ ELSE Append(@, one)]
           /\ xdeleted' = [xdeleted EXCEPT ![r] = IF xdry[r] THEN @ ELSE @ \cup one]
           /\ next_msg' = [next_msg EXCEPT ![r] = @ + 1]
           /\ count' = [count EXCEPT ![r] = @ + 1]
           /\ OpNow(r)
           /\ IF count[r] + 1 >= METER_LIMIT
              THEN /\ xpc' = [xpc EXCEPT ![r] = "sleep"]
                   /\ sleeps_at' = [sleeps_at EXCEPT ![r] = Append(@, consumed[r] + 1)]
              ELSE UNCHANGED <<xpc, sleeps_at>>
           /\ UNCHANGED xresult
        \/ /\ ~xdry[r]
           /\ xcalls' = [xcalls EXCEPT ![r] = Append(@, one)]
           /\ XReturn(r, "Err")
           /\ UNCHANGED <<xdeleted, next_msg, count, consumed, ops_at, sleeps_at>>
     /\ UNCHANGED <<pvars, run_ticks, kind, debug_assertions, band_len, last_ts, xdry,
                    since_start>>

\* a sleep that returns as soon as it is polled, whatever the deadline
SlowWakeEarly(r) ==
  /\ kind = "slow"
  /\ xpc[r] = "sleep"
  /\ count' = [count EXCEPT ![r] = 0]
  /\ since_start' = [since_start EXCEPT ![r] = 0]
  /\ xpc' = [xpc EXCEPT ![r] = "loop"]
  /\ UNCHANGED <<pvars, run_ticks, kind, debug_assertions, band_len, last_ts, xdry,
                 xresult, next_msg, ops_at, consumed, sleeps_at, xcalls,
                 xdeleted>>

\* a wake-up that restarts the window but leaves the counter as it is
SlowWakeNoReset(r) ==
  /\ kind = "slow"
  /\ xpc[r] = "sleep"
  /\ since_start[r] >= WINDOW_TICKS
  /\ since_start' = [since_start EXCEPT ![r] = 0]
  /\ xpc' = [xpc EXCEPT ![r] = "loop"]
  /\ UNCHANGED <<pvars, run_ticks, kind, debug_assertions, band_len, last_ts, xdry,
                 xresult, next_msg, count, ops_at, consumed, sleeps_at, xcalls,
                 xdeleted>>

\* main.rs:140-142 sleep_until(start_time + 60 s) is over: count = 0 and
\* start_time = Instant::now()
SlowWake(r) ==
  /\ kind = "slow"
  /\ xpc[r] = "sleep"
  /\ since_start[r] >= WINDOW_TICKS
  /\ count' = [count EXCEPT ![r] = 0]
  /\ since_start' = [since_start EXCEPT ![r] = 0]
  /\ xpc' = [xpc EXCEPT ![r] = "loop"]
  /\ UNCHANGED <<pvars, run_ticks, kind, debug_assertions, band_len, last_ts, xdry,
                 xresult, next_msg, ops_at, consumed, sleeps_at, xcalls,
                 xdeleted>>

\* main.rs:144-146 the messages are exhausted: Ok(())
SlowReturn(r) ==
  /\ kind = "slow"
  /\ xpc[r] = "loop"
  /\ next_msg[r] = band_len
  /\ XReturn(r, "Ok")
  /\ UNCHANGED <<pvars, run_ticks, kind, debug_assertions, band_len, last_ts, xdry,
                 next_msg, count, since_start, ops_at, consumed, sleeps_at,
                 xcalls, xdeleted>>

\* 30 s pass, during a delete call or a sleep (main.rs:111, 116, 135, 140):
\* the start_time of every running meter is one tick further back, every
\* running loop has run one tick longer, and the operations consumed at each
\* of the last WINDOW_TICKS ticks move one place
XTick ==
  /\ \E r \in Runs : xpc[r] # "done"
  /\ since_start' = [r \in Runs |->
                       IF xpc[r] \in {"loop", "sleep"}
                       THEN Min(since_start[r] + 1, WINDOW_TICKS)
                       ELSE since_start[r]]
  /\ ops_at' = [r \in Runs |->
                  [k \in 1..WINDOW_TICKS |-> IF k = 1 THEN 0 ELSE ops_at[r][k - 1]]]
  /\ run_ticks' = [r \in Runs |->
                     IF r \in Timed /\ xpc[r] \in {"loop", "sleep"}
                     THEN Min(run_ticks[r] + 1, TicksCap)
                     ELSE run_ticks[r]]
  /\ UNCHANGED <<pvars, kind, debug_assertions, band_len, last_ts, xdry, xpc,
                 xresult, next_msg, count, consumed, sleeps_at, xcalls,
                 xdeleted>>

ExecNext ==
  \/ \E r \in Runs : BulkEnter(r)
  \/ \E r \in Runs : BulkChunk(r)
  \/ \E r \in Runs : BulkWake(r)
  \/ \E r \in Runs : BulkReturn(r)
  \/ \E r \in Runs : SlowEnter(r)
  \/ \E r \in Runs : SlowMessage(r)
  \/ \E r \in Runs : SlowWake(r)
  \/ \E r \in Runs : SlowReturn(r)
  \/ XTick

ExecSpec == ExecInit /\ [][ExecNext]_vars

\* the sum of a sequence of numbers
RECURSIVE Sum(_)
Sum(s) == IF s = <<>> THEN 0 ELSE Head(s) + Sum(Tail(s))

XTypeOK ==
  /\ xpc \in [Runs -> {"enter", "loop", "sleep", "done"}]
  /\ count \in [Runs -> 0..METER_LIMIT]
  /\ next_msg \in [Runs -> 0..band_len]

\* ------------------------------------------------------------------ claims
Terminal == {"yes", "no", "Expired"}

\* the invocations that got as far as sending the prompt text
Classified(i) == content[i] # None

\* C1: no platform delete call is issued by an invocation of purge_old unless
\* that invocation has reached Confirmed("yes"); none after an empty window,
\* a "no", a timeout, or a failed fetch or send.
C1_NoDeleteWithoutYes ==
  \A i \in Inv :
    /\ delete_calls[i] > 0 => conf[i] = "yes"
    /\ conf[i] # "yes" => \A k \in 1..Len(messages[i]) : messages[i][k].id \notin deleted

\* C1 witness: an invocation has finished after the user answered "no", the
\* acknowledgment went out, and nothing was deleted.
C1_Witness ==
  \E i \in Inv :
    /\ pc[i] = "done" /\ conf[i] = "no" /\ ack[i] = "no"
    /\ messages[i] # <<>> /\ delete_calls[i] = 0 /\ deleted = {}

\* C2 (as claimed): an invocation on a non-empty window that was answered
\* "yes" in time, with no failing transport call and dry_run = false, has
\* issued delete calls and has deleted every message of its window by the
\* time it returns.
C2_YesDeletesWindow ==
  \A i \in Inv :
    (/\ pc[i] = "done" /\ result[i] = "Ok" /\ conf[i] = "yes"
     /\ failed_at[i] = "none" /\ messages[i] # <<>> /\ ~dry_run[i])
    => /\ delete_calls[i] > 0
       /\ \A k \in 1..Len(messages[i]) : messages[i][k].id \in deleted

\* C3 (as claimed): the bulk band and the slow band of a classified window
\* have len(bulk) + len(slow) = len(window), and bulk followed by slow is the
\* window in its order.
C3_BandsPartitionWindow ==
  \A i \in Inv :
    Classified(i) =>
      LET bulk == SubSeq(messages[i], 1, bulk_count[i])
          slow == SlowBand(messages[i], slow_index[i])
      IN /\ Len(bulk) + Len(slow) = Len(messages[i])
         /\ bulk \o slow = messages[i]

\* C4 (as claimed): the window is split at the first message older than
\* bulk_cutoff; when there is none the slow band is empty, the bulk band is
\* the whole window and the bulk estimate is len(window)/(METER_LIMIT*100).
C4_SplitAtFirstOlder ==
  \A i \in Inv :
    Classified(i) =>
      LET msgs == messages[i]
          older == {k \in 1..Len(msgs) : msgs[k].timestamp < Now - BULK_HORIZON}
          bulk == SubSeq(msgs, 1, bulk_count[i])
          slow == SlowBand(msgs, slow_index[i])
      IN IF older = {}
         THEN /\ slow = <<>>
              /\ bulk = msgs
              /\ content[i][1].bulk # None
              /\ content[i][1].bulk[1].minutes = Len(msgs)
         ELSE LET first == CHOOSE k \in older : \A j \in older : k <= j
              IN /\ bulk = SubSeq(msgs, 1, first - 1)
                 /\ slow = SubSeq(msgs, first, Len(msgs))

\* C5 (as claimed): whatever the latencies, no interval of 60 s (WINDOW_TICKS
\* ticks) holds more than METER_LIMIT consumed operations of a run.
C5_AtMostLimitPerWindow ==
  \A r \in Timed : Sum(ops_at[r]) <= METER_LIMIT

\* C6: once the prompt is sent the confirmation reaches exactly one of
\* Confirmed(yes), Confirmed(no), Expired: a terminal state never changes (a
\* late response does not revive it), it is the choice of the first own
\* button pressed before the deadline, Expired only if there was none, the
\* prompt is sent at most once, and a terminal state is reached.
C6_OneTerminalState ==
  /\ [][\A i \in Inv :
          /\ conf[i] \in Terminal => conf'[i] = conf[i]
          /\ conf'[i] # conf[i] =>
               \/ conf[i] = "none" /\ conf'[i] = "Sent"
               \/ conf[i] = "Sent" /\ conf'[i] \in Terminal
          /\ sent'[i] <= 1]_vars
  /\ [](\A i \in Inv :
          /\ conf[i] \in {"yes", "no"} => first_response[i] = conf[i]
          /\ conf[i] = "Expired" => first_response[i] = "none"
          /\ conf[i] = "Sent" => first_response[i] = "none"
          /\ (sent[i] = 1) <=> (conf[i] # "none"))
  /\ \A i \in Inv : (conf[i] = "Sent") ~> (conf[i] \in Terminal)

\* C6 witness: a button of an expired prompt was pressed after the expiry,
\* and the confirmation is still Expired.
C6_Witness ==
  \E i \in Inv : conf[i] = "Expired" /\ late_response[i] /\ pc[i] = "done"

\* C7 (as claimed): when the update that disables the buttons fails after the
\* response was captured, the failure is logged, the invocation does not
\* return an error because of it, and the acknowledgment is still sent.
C7_DisableFailureSwallowed ==
  \A i \in Inv :
    (pc[i] = "done" /\ failed_at[i] = "create_response")
    => /\ logged[i] >= 1
       /\ result[i] = "Ok"
       /\ ack[i] = conf[i]

\* C8: two invocations share no choice token, and a pending prompt is
\* resolved only by a press of one of its own buttons: a prompt leaves Sent
\* for a choice only with that choice being its own first response, and
\* otherwise only by its own timeout.
C8_NoCrossResolution ==
  /\ [](\A i, j \in Inv : i # j => CustomIds(i) \cap CustomIds(j) = {})
  /\ [][\A i \in Inv :
          (conf[i] = "Sent" /\ conf'[i] # "Sent") =>
            \/ /\ conf'[i] \in {"yes", "no"}
               /\ first_response[i] = "none"
               /\ first_response'[i] = conf'[i]
               /\ interaction'[i] = Some(ButtonId(i, conf'[i]))
            \/ /\ conf'[i] = "Expired"
               /\ elapsed[i] = TIMEOUT_TICKS]_vars

\* C8 witness: one invocation's prompt was answered with its own button
\* while the other invocation's prompt is still pending in Sent.
C8_Witness ==
  \E i, j \in Inv :
    /\ i # j
    /\ conf[i] \in {"yes", "no"} /\ first_response[i] = conf[i]
    /\ conf[j] = "Sent" /\ pc[j] = "collect" /\ first_response[j] = "none"

\* C9: when the collector times out, the prompt is left as sent (buttons
\* enabled, no update, no follow-up, nothing logged) and the invocation
\* returns Ok.
C9_TimeoutLeavesPrompt ==
  \A i \in Inv :
    conf[i] = "Expired" =>
      /\ pc[i] = "done" /\ result[i] = "Ok"
      /\ buttons[i] = "enabled" /\ sent[i] = 1
      /\ interaction[i] = None /\ ack[i] = "none" /\ logged[i] = 0

\* C9 witness: an invocation has returned after its collector timed out.
C9_Witness ==
  \E i \in Inv :
    pc[i] = "done" /\ conf[i] = "Expired" /\ elapsed[i] = TIMEOUT_TICKS
    /\ first_response[i] = "none"

\* C10: on the same band a dry run issues no delete call and deletes
\* nothing, and at the same position in the band it has consumed the same
\* number of operations and has slept at the same operation counts as a real
\* run whose calls have all succeeded; both return Ok at the end of the band.
C10_DryRunPacesAlike ==
  /\ \A r \in Runs : xdry[r] => xcalls[r] = <<>> /\ xdeleted[r] = {}
  /\ \A d, w \in Runs :
       (/\ xdry[d] /\ ~xdry[w]
        /\ xresult[w] # "Err"
        /\ xpc[d] # "enter" /\ xpc[w] # "enter"
        /\ next_msg[d] = next_msg[w])
       => /\ consumed[d] = consumed[w]
          /\ sleeps_at[d] = sleeps_at[w]
          /\ (xpc[d] = "done" /\ xpc[w] = "done") => xresult[d] = xresult[w]

\* C10 witness: a dry run and a real run of the same band have both returned
\* Ok after at least one throttle sleep; the real run made delete calls.
C10_Witness ==
  \E d, w \in Runs :
    /\ xdry[d] /\ ~xdry[w]
    /\ xpc[d] = "done" /\ xpc[w] = "done"
    /\ xresult[d] = "Ok" /\ xresult[w] = "Ok"
    /\ sleeps_at[d] # <<>> /\ xcalls[w] # <<>> /\ xcalls[d] = <<>>

\* the positions covered by the first n calls of a sequence of calls
CallsUpTo(calls, n) == UNION {calls[k] : k \in 1..n}

\* C11: when a delete or batch-delete call fails the loop returns the error
\* at once: it is done, the failing call is the last one issued, no
\* operation is consumed, nothing sleeps and nothing more is deleted after
\* it, and what the earlier successful calls deleted stays deleted.
C11_FailureAbortsAtOnce ==
  /\ [](\A r \in Runs :
          xresult[r] = "Err" =>
            /\ xpc[r] = "done"
            /\ ~xdry[r]
            /\ xcalls[r] # <<>>
            /\ xdeleted[r] = CallsUpTo(xcalls[r], Len(xcalls[r]) - 1)
            /\ Len(xcalls[r]) = consumed[r] + 1)
  /\ [][\A r \in Runs :
          /\ xdeleted[r] \subseteq xdeleted'[r]
          /\ xresult[r] = "Err" =>
               /\ xresult'[r] = "Err"
               /\ xcalls'[r] = xcalls[r]
               /\ xdeleted'[r] = xdeleted[r]
               /\ consumed'[r] = consumed[r]
               /\ sleeps_at'[r] = sleeps_at[r]
               /\ xpc'[r] = "done"]_vars

\* C11 witness: a run has failed after at least one successful delete call,
\* with messages of the band still undeleted.
C11_Witness ==
  \E r \in Runs :
    /\ xresult[r] = "Err" /\ xpc[r] = "done"
    /\ xdeleted[r] # {} /\ Len(xcalls[r]) >= 2
    /\ next_msg[r] < band_len

\* C12: a run that has processed N operations has taken at least
\* floor((N-1)/METER_LIMIT) throttle windows from its start to its return,
\* whatever the latencies of the delete calls.
C12_RunTakesAtLeast ==
  \A r \in Timed :
    (xpc[r] = "done" /\ consumed[r] >= 1)
    => run_ticks[r] >= ((consumed[r] - 1) \div METER_LIMIT) * WINDOW_TICKS

\* C12 witness: a run of more than METER_LIMIT operations has returned Ok
\* having taken exactly one throttle window.
C12_Witness ==
  \E r \in Timed :
    /\ xpc[r] = "done" /\ xresult[r] = "Ok"
    /\ consumed[r] > METER_LIMIT
    /\ run_ticks[r] = WINDOW_TICKS

\* C13 (as claimed): a loop handed a band whose oldest message is less than
\* two weeks old issues no delete call and ends in an error.
C13_RefusesYoungerThanTwoWeeks ==
  \A r \in Runs :
    (band_len > 0 /\ last_ts > Now - TWO_WEEKS)
    => /\ xcalls[r] = <<>>
       /\ xpc[r] = "done" => xresult[r] \in {"Err", "panic"}

\* the assertion of bulk_delete fails: the band is empty (messages[len - 1]
\* does not exist) or its last message is two weeks old or older
AssertionFails == band_len = 0 \/ last_ts <= Now - TWO_WEEKS

\* C13 (amended): in a build with debug assertions bulk_delete asserts,
\* before any delete call, that the last (oldest) message of its band is
\* less than two weeks old; when that fails it panics, having issued no
\* delete call and consumed no operation.  Nothing else panics: release
\* builds and slow_bulk_delete make no check.
C13_DebugAssertsNewerThanTwoWeeks ==
  \A r \in Runs :
    /\ (kind = "bulk" /\ debug_assertions /\ AssertionFails)
       => /\ xcalls[r] = <<>> /\ xdeleted[r] = {} /\ consumed[r] = 0
          /\ xpc[r] \in {"enter", "done"}
          /\ xpc[r] = "done" => xresult[r] = "panic"
    /\ xresult[r] = "panic"
       => kind = "bulk" /\ debug_assertions /\ AssertionFails

\* C13 witness: bulk_delete has panicked on a non-empty band whose last
\* message is two weeks old, without a delete call.
C13_Witness ==
  \E r \in Runs :
    /\ xpc[r] = "done" /\ xresult[r] = "panic" /\ ~xdry[r]
    /\ band_len > 0 /\ last_ts = Now - TWO_WEEKS /\ xcalls[r] = <<>>

\* the invocations whose messages_before call has returned a window
Fetched(i) ==
  /\ pc[i] \notin {"defer", "fetch"}
  /\ failed_at[i] \notin {"defer", "fetch"}

\* C14: for a history enumerated newest first, the window is exactly the
\* messages dated before `before` = now - 7 days, in enumeration order: none
\* of them is missing and no message younger than 7 days is in the window.
C14_WindowIsOlderThanBefore ==
  \A i \in Inv :
    Fetched(i) =>
      /\ messages[i] = SelectSeq(channel, LAMBDA m : m.timestamp < Now - SEVEN_DAYS)
      /\ \A k \in 1..Len(messages[i]) : Now - messages[i][k].timestamp > SEVEN_DAYS

\* C14 witness: a window was fetched from a channel that also holds a
\* message exactly 7 days old, which was skipped.
C14_Witness ==
  \E i \in Inv :
    /\ Fetched(i) /\ messages[i] # <<>>
    /\ Len(messages[i]) < Len(channel)
    /\ \E k \in 1..Len(channel) : channel[k].timestamp = Now - SEVEN_DAYS

\* C15: when the fetched window is empty purge_old has returned Ok at once:
\* no prompt text was built or sent, no collector waits, no button exists,
\* no follow-up and no delete call were issued.
C15_EmptyWindowReturnsAtOnce ==
  \A i \in Inv :
    (Fetched(i) /\ messages[i] = <<>>) =>
      /\ pc[i] = "done" /\ result[i] = "Ok"
      /\ content[i] = None /\ sent[i] = 0
      /\ conf[i] = "none" /\ buttons[i] = "none" /\ elapsed[i] = 0
      /\ ack[i] = "none" /\ delete_calls[i] = 0

\* C15 witness: an invocation has returned on an empty window although the
\* channel holds messages (all of them 7 days old or younger).
C15_Witness ==
  \E i \in Inv :
    /\ Fetched(i) /\ messages[i] = <<>> /\ pc[i] = "done"
    /\ channel # <<>>

\* C16 (as claimed): the total shown in the prompt, times METER_LIMIT * 100,
\* is len(bulk_band) + 100 * len(slow_band) for the bands computed.
C16_ShownTotalIsExact ==
  \A i \in Inv :
    Classified(i) =>
      \A h \in Format2(content[i][1].minutes) :
        h * METER_LIMIT =
          bulk_count[i] + BATCH_FACTOR * Len(SlowBand(messages[i], slow_index[i]))

\* C16 (amended): the estimates computed for the prompt are
\* len(slow_band) / METER_LIMIT and len(bulk_band) / (METER_LIMIT * 100) for
\* the bands computed (a paragraph is absent exactly when its band is empty),
\* they are >= 0, the total is their sum, and what the prompt shows is the
\* total rounded to two decimals: within 0.005 minute of it.
C16_EstimatesFromBands ==
  \A i \in Inv :
    Classified(i) =>
      LET c == content[i][1]
          bulk == SubSeq(messages[i], 1, bulk_count[i])
          slow == SlowBand(messages[i], slow_index[i])
      IN /\ IF c.slow = None THEN slow = <<>>
            ELSE c.slow[1].minutes = BATCH_FACTOR * Len(slow) /\ c.slow[1].minutes >= 0
         /\ IF c.bulk = None THEN bulk = <<>>
            ELSE c.bulk[1].minutes = Len(bulk) /\ c.bulk[1].minutes > 0
         /\ c.minutes = Len(bulk) + BATCH_FACTOR * Len(slow)
         /\ c.minutes >= 0
         /\ \A h \in Format2(c.minutes) :
              /\ 2 * (h * METER_LIMIT - c.minutes) <= METER_LIMIT
              /\ 2 * (c.minutes - h * METER_LIMIT) <= METER_LIMIT

\* C16 witness: a prompt with both paragraphs whose total is not a whole
\* number of hundredths of a minute, so that the text shows it rounded.
C16_Witness ==
  \E i \in Inv :
    /\ Classified(i)
    /\ content[i][1].slow # None /\ content[i][1].bulk # None
    /\ \A h \in Format2(content[i][1].minutes) :
         h * METER_LIMIT # content[i][1].minutes

\* C17: on a matching response the prompt is first updated so that both
\* buttons are disabled, its content kept; only after that update succeeded
\* is the one acknowledgment sent, whose text is "yes" exactly when the
\* response carried the yes token and "no" exactly when it carried the no
\* token; no other token reaches the branch (unreachable!() never runs).
C17_DisableThenAcknowledge ==
  /\ [](\A i \in Inv :
          /\ pc[i] = "followup" => buttons[i] = "disabled"
          /\ buttons[i] = "disabled" => conf[i] \in {"yes", "no"} /\ content[i] # None
          /\ ack[i] # "none" =>
               /\ buttons[i] = "disabled"
               /\ interaction[i] # None
               /\ ack[i] = "yes" <=> interaction[i][1] = yes_uuid(i)
               /\ ack[i] = "no" <=> interaction[i][1] = no_uuid(i)
               /\ ack[i] = conf[i]
          /\ pc[i] \in {"respond", "followup"} => interaction[i][1] \in CustomIds(i)
          /\ result[i] # "panic")
  /\ [][\A i \in Inv :
          /\ content[i] # None => content'[i] = content[i]
          /\ ack[i] # "none" => ack'[i] = ack[i]
          /\ ack'[i] # ack[i] => buttons[i] = "disabled" /\ pc[i] = "followup"]_vars

\* C17 witness: an invocation answered "yes" has its buttons disabled and
\* its acknowledgment "yes" sent.
C17_Witness ==
  \E i \in Inv :
    /\ pc[i] = "done" /\ result[i] = "Ok"
    /\ buttons[i] = "disabled" /\ ack[i] = "yes"
    /\ interaction[i] = Some(yes_uuid(i))

\* C18: in every state of a deletion loop the counter is between 0 and
\* METER_LIMIT and is the number of operations consumed since the current
\* window started; it is reset to 0, together with the start of the window,
\* only after the loop has slept until the window's start + 60 s.
C18_CounterWithinLimit ==
  /\ [](\A r \in Runs :
          /\ count[r] \in 0..METER_LIMIT
          /\ count[r] = METER_LIMIT <=> xpc[r] = "sleep"
          /\ count[r] = consumed[r]
               - METER_LIMIT * (Len(sleeps_at[r]) - (IF xpc[r] = "sleep" THEN 1 ELSE 0)))
  /\ [][\A r \in Runs :
          /\ count'[r] < count[r] =>
               /\ xpc[r] = "sleep"
               /\ since_start[r] >= WINDOW_TICKS
               /\ count'[r] = 0
               /\ since_start'[r] = 0
          /\ since_start'[r] < since_start[r] => count'[r] = 0]_vars

\* C18 witness: a loop has slept, has reset its counter and window, and has
\* consumed a further operation with messages still to go.
C18_Witness ==
  \E r \in Runs :
    /\ xpc[r] = "loop" /\ sleeps_at[r] # <<>>
    /\ count[r] = 1 /\ consumed[r] = METER_LIMIT + 1
    /\ next_msg[r] < band_len

\* C19 (as claimed): a slow-band run sleeps only when operations remain: the
\* throttle sleeps come after the METER_LIMIT-th, 2*METER_LIMIT-th, ...
\* operation, each is followed by further operations, and a run that
\* returns Ok has slept once per full window that had messages after it.
C19_SleepsOnlyWhenOperationsRemain ==
  kind = "slow" =>
    \A r \in Runs :
      /\ \A k \in 1..Len(sleeps_at[r]) : sleeps_at[r][k] = k * METER_LIMIT
      /\ xpc[r] = "sleep" => next_msg[r] < band_len
      /\ (xpc[r] = "done" /\ xresult[r] = "Ok") =>
           Len(sleeps_at[r]) = (band_len - 1) \div METER_LIMIT

Ceil(n, d) == (n + d - 1) \div d

\* C20: bulk_delete issues its batch calls on consecutive slices of the band
\* in window order, each of at most CHUNK_SIZE messages and each one metered
\* operation; when none fails there are exactly ceil(n / CHUNK_SIZE) of them
\* and every message of the band is in exactly one. slow_bulk_delete issues
\* one call per message, in window order.
C20_BatchesSliceTheBand ==
  \A r \in Runs :
    LET done_ok == xpc[r] = "done" /\ xresult[r] = "Ok"
        calls == xcalls[r]
    IN /\ kind = "bulk" =>
            /\ \A k \in 1..Len(calls) :
                 /\ calls[k] = ((k - 1) * CHUNK_SIZE + 1)..Min(k * CHUNK_SIZE, band_len)
                 /\ Cardinality(calls[k]) \in 1..CHUNK_SIZE
            /\ done_ok => consumed[r] = Ceil(band_len, CHUNK_SIZE)
            /\ (done_ok /\ ~xdry[r]) =>
                 /\ Len(calls) = Ceil(band_len, CHUNK_SIZE)
                 /\ \A m \in 1..band_len :
                      Cardinality({k \in 1..Len(calls) : m \in calls[k]}) = 1
       /\ kind = "slow" =>
            /\ \A k \in 1..Len(calls) : calls[k] = {k}
            /\ done_ok => consumed[r] = band_len
            /\ (done_ok /\ ~xdry[r]) => Len(calls) = band_len
       /\ ~xdry[r] => consumed[r] \in {Len(calls), Len(calls) - 1}
       /\ (~xdry[r] /\ xresult[r] # "Err") => consumed[r] = Len(calls)

\* C20 witness: a non-dry bulk run has returned Ok on a band whose last batch
\* is a partial one.
C20_Witness ==
  \E r \in Runs :
    /\ kind = "bulk" /\ ~xdry[r]
    /\ xpc[r] = "done" /\ xresult[r] = "Ok"
    /\ band_len > CHUNK_SIZE /\ band_len % CHUNK_SIZE # 0
    /\ Len(xcalls[r]) = Ceil(band_len, CHUNK_SIZE)

====
